---- MODULE Spec2Model ----
(***************************************************************************)
(* A model of guppy-runner: the console entry point                        *)
(* (src/guppy_runner/__main__.py), the LLVMIR-to-object stage compiler     *)
(* (src/guppy_runner/compile/llvm_compiler.py) and the staged pipeline     *)
(* driver that the entry point calls.                                      *)
(*                                                                         *)
(* Spec          one run of the console script, from the parsed command    *)
(*               line to the exit code.                                    *)
(* CompilerSpec  a sequence of direct calls of LlvmCompiler.process_stage. *)
(***************************************************************************)
EXTENDS Integers, Sequences, FiniteSets, TLC

VARIABLES
    args,        \* the argparse Namespace (flags, paths, input_stage, input_encoding)
    environ,     \* os.environ, restricted to the variables the code reads
    pc,          \* position of the console script
    stage_data,  \* the pipeline's current StageData, or Null
    invoked,     \* INPUT_STAGE of every compiler invoked, in order
    procs,       \* command line of every external process spawned, in order
    outcomes,    \* how each of these processes ended: "ok", "nonzero",
                 \* "notfound", "oserror"
    outputs,     \* output paths handed to the tools that exited with status
                 \* 0; the code takes such a path as produced and never
                 \* looks whether the tool wrote the file
    executions,  \* number of times the runnable artifact was executed
    success,     \* <<return value of run_guppy_from_stage>>, <<>> before it returns
    error,       \* the error that ended the run, or None
    exit_code,   \* <<exit status of the process>>, <<>> while it runs
    stdin_read,  \* TRUE once standard input was read to the end
    detections,  \* number of calls of EncodingMode.from_file
    calls        \* CompilerSpec: the calls of process_stage made so far

vars == <<args, environ, pc, stage_data, invoked, procs, outcomes, outputs, executions,
          success, error, exit_code, stdin_read, detections, calls>>

\* Python's None: for a stage, an encoding or an error name, and for a path
\* or a StageData.  An optional boolean or integer is a sequence of length
\* at most one.
None == "None"
Null == [none |-> TRUE]

----------------------------------------------------------------------------
(* Stage and EncodingMode (guppy_runner.stage)                             *)

Stages == <<"GUPPY", "HUGR", "HUGR_MLIR", "LOWERED_MLIR", "LLVM", "OBJECT", "EXECUTABLE">>

StageSet == {Stages[i] : i \in DOMAIN Stages}

\* position of a stage in the total order
StageIndex(s) == CHOOSE i \in DOMAIN Stages : Stages[i] = s

\* Stage.__ge__ / Stage.__lt__
StageGe(a, b) == StageIndex(a) >= StageIndex(b)
StageLt(a, b) == StageIndex(a) < StageIndex(b)

TEXTUAL == "TEXTUAL"
BITCODE == "BITCODE"
EncodingMode == {TEXTUAL, BITCODE}

\* EncodingMode.from_file: the per-stage table of known suffixes; None when
\* the suffix is not known for the stage.
from_file(path, stage) ==
    CASE stage = "GUPPY" /\ path.suffix = ".py" -> TEXTUAL
      [] stage = "HUGR" /\ path.suffix = ".json" -> TEXTUAL
      [] stage = "HUGR" /\ path.suffix = ".msgpack" -> BITCODE
      [] stage \in {"HUGR_MLIR", "LOWERED_MLIR"} /\ path.suffix = ".mlir" -> TEXTUAL
      [] stage \in {"HUGR_MLIR", "LOWERED_MLIR"} /\ path.suffix = ".mlirbc" -> BITCODE
      [] stage = "LLVM" /\ path.suffix = ".ll" -> TEXTUAL
      [] stage = "LLVM" /\ path.suffix = ".bc" -> BITCODE
      [] stage = "OBJECT" /\ path.suffix = ".o" -> BITCODE
      [] OTHER -> None

----------------------------------------------------------------------------
(* Paths.  A path is a record of its segments and its suffix; a raw string  *)
(* is the same record before pathlib has normalised it.                     *)

\* pathlib.Path(raw): "." and empty segments are dropped
Path(raw) ==
    [segments |-> SelectSeq(raw.segments, LAMBDA s : s \notin {".", ""}),
     suffix |-> raw.suffix]

\* str(path): the empty path prints as "."
PathStr(p) == IF p.segments = <<>> THEN <<".">> ELSE p.segments

File(name, suffix) == [segments |-> <<name>>, suffix |-> suffix]

----------------------------------------------------------------------------
(* Command line (src/guppy_runner/__main__.py)                              *)

InputSuffixes == {".py", ".json", ".msgpack", ".mlir", ".mlirbc", ".ll", ".bc", ".txt", ""}

InputPaths == {File("prog", x) : x \in InputSuffixes}

StoreOptions == <<"store_hugr", "store_hugr_mlir", "store_llvm_mlir",
                  "store_llvm", "store_obj", "store_bin">>

\* the path given to each --store-* option when it is given
StorePath(opt) ==
    CASE opt = "store_hugr" -> File("out_hugr", ".json")
      [] opt = "store_hugr_mlir" -> File("out_hugr_mlir", ".mlir")
      [] opt = "store_llvm_mlir" -> File("out_llvm_mlir", ".mlirbc")
      [] opt = "store_llvm" -> File("out_llvm", ".ll")
      [] opt = "store_obj" -> File("out_obj", ".o")
      [] opt = "store_bin" -> File("out_bin", "")

\* every command line argparse can be given. help is the place of -h/--help
\* on the command line: None when it is absent, "first" when it comes before
\* every other option, "last" when it comes after them.
CommandLines ==
    { [hugr |-> f[1], hugr_mlir |-> f[2], llvm_mlir |-> f[3], llvm |-> f[4],
       bitcode |-> e[1], textual |-> e[2],
       input |-> i,
       store_hugr |-> IF 1 \in st THEN StorePath("store_hugr") ELSE Null,
       store_hugr_mlir |-> IF 2 \in st THEN StorePath("store_hugr_mlir") ELSE Null,
       store_llvm_mlir |-> IF 3 \in st THEN StorePath("store_llvm_mlir") ELSE Null,
       store_llvm |-> IF 4 \in st THEN StorePath("store_llvm") ELSE Null,
       store_obj |-> IF 5 \in st THEN StorePath("store_obj") ELSE Null,
       store_bin |-> IF 6 \in st THEN StorePath("store_bin") ELSE Null,
       no_run |-> n,
       help |-> h,
       input_stage |-> None,
       input_encoding |-> None] :
      f \in [1..4 -> BOOLEAN], e \in [1..2 -> BOOLEAN],
      i \in InputPaths \cup {Null}, st \in SUBSET (1..6), n \in BOOLEAN,
      h \in {None, "first", "last"} }

\* add_mutually_exclusive_group: argparse rejects two options of one group
mutually_exclusive(a) ==
    /\ Cardinality({o \in {"hugr", "hugr_mlir", "llvm_mlir", "llvm"} : a[o]}) <= 1
    /\ ~(a.bitcode /\ a.textual)

get_input_state_ignores_hugr(a) ==
    IF a.hugr_mlir THEN "HUGR_MLIR"
    ELSE IF a.llvm_mlir THEN "LOWERED_MLIR"
    ELSE IF a.llvm THEN "LLVM"
    ELSE "GUPPY"

get_input_state(a) ==
    IF a.hugr THEN "HUGR"
    ELSE IF a.hugr_mlir THEN "HUGR_MLIR"
    ELSE IF a.llvm_mlir THEN "LOWERED_MLIR"
    ELSE IF a.llvm THEN "LLVM"
    ELSE "GUPPY"

\* get_input_encoding: the encoding returned, the number of calls of
\* EncodingMode.from_file it made and whether it logged the default notice
get_input_encoding_detect_first(a) ==
    LET detected == IF a.input # Null THEN from_file(a.input, a.input_stage) ELSE TEXTUAL
        n == IF a.input # Null THEN 1 ELSE 0
    IN IF detected # None THEN [value |-> detected, from_file_calls |-> n, logged |-> FALSE]
       ELSE IF a.textual THEN [value |-> TEXTUAL, from_file_calls |-> n, logged |-> FALSE]
       ELSE [value |-> BITCODE, from_file_calls |-> n, logged |-> ~a.bitcode]

get_input_encoding_no_default(a) ==
    IF a.textual THEN [value |-> TEXTUAL, from_file_calls |-> 0, logged |-> FALSE]
    ELSE IF a.bitcode THEN [value |-> BITCODE, from_file_calls |-> 0, logged |-> FALSE]
    ELSE IF a.input # Null
         THEN [value |-> from_file(a.input, a.input_stage), from_file_calls |-> 1,
               logged |-> FALSE]
         ELSE [value |-> TEXTUAL, from_file_calls |-> 0, logged |-> FALSE]

get_input_encoding_stdin_bitcode(a) ==
    IF a.textual THEN [value |-> TEXTUAL, from_file_calls |-> 0, logged |-> FALSE]
    ELSE IF a.bitcode THEN [value |-> BITCODE, from_file_calls |-> 0, logged |-> FALSE]
    ELSE LET detected == IF a.input # Null
                         THEN from_file(a.input, a.input_stage)
                         ELSE None
             n == IF a.input # Null THEN 1 ELSE 0
         IN IF detected = None
            THEN [value |-> BITCODE, from_file_calls |-> n, logged |-> TRUE]
            ELSE [value |-> detected, from_file_calls |-> n, logged |-> FALSE]

get_input_encoding(a) ==
    IF a.textual THEN [value |-> TEXTUAL, from_file_calls |-> 0, logged |-> FALSE]
    ELSE IF a.bitcode THEN [value |-> BITCODE, from_file_calls |-> 0, logged |-> FALSE]
    ELSE LET detected == IF a.input # Null
                         THEN from_file(a.input, a.input_stage)
                         ELSE TEXTUAL
             n == IF a.input # Null THEN 1 ELSE 0
         IN IF detected = None
            THEN [value |-> BITCODE, from_file_calls |-> n, logged |-> TRUE]
            ELSE [value |-> detected, from_file_calls |-> n, logged |-> FALSE]

store_requires(a) ==
    << <<a.store_hugr, "HUGR">>,
       <<a.store_hugr_mlir, "HUGR_MLIR">>,
       <<a.store_llvm_mlir, "LOWERED_MLIR">>,
       <<a.store_llvm, "LLVM">>,
       <<a.store_obj, "OBJECT">>,
       <<a.store_bin, "EXECUTABLE">> >>

validate_args_strict(a) ==
    LET req == store_requires(a)
        bad == {i \in DOMAIN req : req[i][1] # Null
                    /\ StageIndex(a.input_stage) > StageIndex(req[i][2])}
    IN IF bad = {} THEN None
       ELSE req[CHOOSE i \in bad : \A j \in bad : i <= j][2]

\* validate_args: None when it returns, else the stage named by the first
\* parser.error, which exits
validate_args(a) ==
    LET req == store_requires(a)
        bad == {i \in DOMAIN req : req[i][1] # Null /\ StageGe(a.input_stage, req[i][2])}
    IN IF bad = {} THEN None
       ELSE req[CHOOSE i \in bad : \A j \in bad : i <= j][2]

----------------------------------------------------------------------------
(* LlvmCompiler (src/guppy_runner/compile/llvm_compiler.py)                 *)

LLC == [segments |-> <<"llc">>, suffix |-> ""]
LLC_ENV == "LLC"
DEFAULT_OBJ == Path([segments |-> <<"a.o">>, suffix |-> ".o"])

LlvmCompiler_skips_object == [INPUT_STAGE |-> "LLVM", OUTPUT_STAGE |-> "EXECUTABLE"]

LlvmCompiler_goes_back == [INPUT_STAGE |-> "LLVM", OUTPUT_STAGE |-> "LOWERED_MLIR"]

LlvmCompiler == [INPUT_STAGE |-> "LLVM", OUTPUT_STAGE |-> "OBJECT"]

\* the values the LLC environment variable takes when it is set
LlcOverrides ==
    { [segments |-> <<"/", "opt", "llvm", "bin", "llc-15">>, suffix |-> ""],
      [segments |-> <<".", "llc">>, suffix |-> ""],
      [segments |-> <<"llc">>, suffix |-> ""] }

NoEnviron == [v \in {} |-> Null]
Environs == {NoEnviron} \cup {[v \in {LLC_ENV} |-> x] : x \in LlcOverrides}

MaxStderrLines == 2
StderrLine == {"llc: error: expected top-level entity", "1 error generated"}

\* the captured error stream, as the sequence of its lines
Stderrs == UNION {[1..n -> StderrLine] : n \in 0..MaxStderrLines}

\* what the operating system answers to one subprocess.run: the binary is
\* not found (FileNotFoundError), it cannot be executed (another OSError:
\* PermissionError for a file without the execute bit or a directory, "Exec
\* format error" for a file that is no program), or it runs and exits with
\* a status, leaving a captured stderr
ToolResponses ==
    {[outcome |-> "ok", stderr |-> <<>>], [outcome |-> "notfound", stderr |-> <<>>],
     [outcome |-> "oserror", stderr |-> <<>>]}
    \cup {[outcome |-> "nonzero", stderr |-> e] : e \in Stderrs}

\* LlvmCompiler._get_compiler
_get_compiler(env) ==
    IF LLC_ENV \in DOMAIN env
    THEN <<Path(env[LLC_ENV]), TRUE>>
    ELSE <<Path(LLC), FALSE>>

\* UnsupportedEncodingError(stage, encoding)
UnsupportedEncodingError(stage, encoding) ==
    [name |-> "UnsupportedEncodingError", family |-> "CompilerError",
     stage |-> stage, encoding |-> encoding, binary |-> <<>>, err_line |-> <<>>]

\* LlcNotFoundError(): the message names LLC
LlcNotFoundError ==
    [name |-> "LlcNotFoundError", family |-> "CompilerError",
     stage |-> None, encoding |-> None, binary |-> PathStr(LLC), err_line |-> <<>>]

\* LlcError(perror): the message names LLC and carries the first line of
\* perror.stderr formatted by the f-string, or "" when there is no line.
\* stderr was captured as bytes unless text is set, and a bytes line is
\* formatted as its repr b'...'.
LlcError(perror) ==
    [name |-> "LlcError", family |-> "CompilerError",
     stage |-> None, encoding |-> None, binary |-> PathStr(LLC),
     err_line |-> IF perror.stderr = <<>> THEN <<"">>
                  ELSE IF perror.text THEN <<Head(perror.stderr)>>
                  ELSE <<"b'", Head(perror.stderr), "'">>]

\* the OSError other than FileNotFoundError that subprocess.run raises when
\* the binary cannot be executed: no except clause of process_stage names it,
\* so it leaves process_stage as it is
OSError ==
    [name |-> "OSError", family |-> "OSError",
     stage |-> None, encoding |-> None, binary |-> <<>>, err_line |-> <<>>]

\* the base class of each exception class
base_class_llvm_error_is_exception(c) ==
    CASE c \in {"LlcNotFoundError", "LlcError"} -> "LlvmError"
      [] c = "LlvmError" -> "Exception"
      [] c \in {"UnsupportedEncodingError", "ToolNotFoundError", "ToolInvocationError"} -> "CompilerError"
      [] c = "CompilerError" -> "Exception"
      [] c = "OSError" -> "Exception"
      [] OTHER -> None

base_class(c) ==
    CASE c \in {"LlcNotFoundError", "LlcError"} -> "LlvmError"
      [] c = "LlvmError" -> "CompilerError"
      [] c \in {"UnsupportedEncodingError", "ToolNotFoundError", "ToolInvocationError"} -> "CompilerError"
      [] c = "CompilerError" -> "Exception"
      [] c = "OSError" -> "Exception"
      [] OTHER -> None

\* issubclass(c, base)
RECURSIVE is_subclass(_, _)
is_subclass(c, base) ==
    IF c = None THEN FALSE
    ELSE IF c = base THEN TRUE
    ELSE is_subclass(base_class(c), base)

NoError ==
    [name |-> None, family |-> None, stage |-> None, encoding |-> None,
     binary |-> <<>>, err_line |-> <<>>]

process_stage_swallows_exit_status(input_path, input_encoding, output_path, output_encoding, env, tool) ==
    IF output_encoding = TEXTUAL
    THEN [raised |-> UnsupportedEncodingError(LlvmCompiler.OUTPUT_STAGE, output_encoding),
          returned |-> Null, spawned |-> <<>>]
    ELSE LET out == IF output_path = Null THEN DEFAULT_OBJ ELSE output_path
             cmd == <<_get_compiler(env)[1], input_path, "--filetype=obj", "-o", out>>
         IN IF tool.outcome = "notfound"
            THEN [raised |-> LlcNotFoundError, returned |-> Null, spawned |-> <<cmd>>]
            ELSE IF tool.outcome = "oserror"
            THEN [raised |-> OSError, returned |-> Null, spawned |-> <<cmd>>]
            ELSE [raised |-> NoError, returned |-> out, spawned |-> <<cmd>>]

process_stage_no_encoding_check(input_path, input_encoding, output_path, output_encoding, env, tool) ==
    LET out == IF output_path = Null THEN DEFAULT_OBJ ELSE output_path
        output_as_text == output_encoding = TEXTUAL
        cmd == <<_get_compiler(env)[1], input_path, "--filetype=obj", "-o", out>>
    IN CASE tool.outcome = "notfound" ->
              [raised |-> LlcNotFoundError, returned |-> Null, spawned |-> <<cmd>>]
         [] tool.outcome = "oserror" ->
              [raised |-> OSError, returned |-> Null, spawned |-> <<cmd>>]
         [] tool.outcome = "nonzero" ->
              [raised |-> LlcError([stderr |-> tool.stderr, text |-> output_as_text]),
               returned |-> Null, spawned |-> <<cmd>>]
         [] OTHER ->
              [raised |-> NoError, returned |-> out, spawned |-> <<cmd>>]

process_stage_retries_failed_tool(input_path, input_encoding, output_path, output_encoding, env, tool) ==
    IF output_encoding = TEXTUAL
    THEN [raised |-> UnsupportedEncodingError(LlvmCompiler.OUTPUT_STAGE, output_encoding),
          returned |-> Null, spawned |-> <<>>]
    ELSE LET out == IF output_path = Null THEN DEFAULT_OBJ ELSE output_path
             output_as_text == output_encoding = TEXTUAL
             cmd == <<_get_compiler(env)[1], input_path, "--filetype=obj", "-o", out>>
         IN CASE tool.outcome = "notfound" ->
                   [raised |-> LlcNotFoundError, returned |-> Null, spawned |-> <<cmd>>]
              [] tool.outcome = "oserror" ->
                   [raised |-> OSError, returned |-> Null, spawned |-> <<cmd>>]
              [] tool.outcome = "nonzero" ->
                   [raised |-> LlcError([stderr |-> tool.stderr, text |-> output_as_text]),
                    returned |-> Null, spawned |-> <<cmd, cmd>>]
              [] OTHER ->
                   [raised |-> NoError, returned |-> out, spawned |-> <<cmd>>]

process_stage_returns_default_path(input_path, input_encoding, output_path, output_encoding, env, tool) ==
    IF output_encoding = TEXTUAL
    THEN [raised |-> UnsupportedEncodingError(LlvmCompiler.OUTPUT_STAGE, output_encoding),
          returned |-> Null, spawned |-> <<>>]
    ELSE LET out == IF output_path = Null THEN DEFAULT_OBJ ELSE output_path
             output_as_text == output_encoding = TEXTUAL
             cmd == <<_get_compiler(env)[1], input_path, "--filetype=obj", "-o", out>>
         IN CASE tool.outcome = "notfound" ->
                   [raised |-> LlcNotFoundError, returned |-> Null, spawned |-> <<cmd>>]
              [] tool.outcome = "oserror" ->
                   [raised |-> OSError, returned |-> Null, spawned |-> <<cmd>>]
              [] tool.outcome = "nonzero" ->
                   [raised |-> LlcError([stderr |-> tool.stderr, text |-> output_as_text]),
                    returned |-> Null, spawned |-> <<cmd>>]
              [] OTHER ->
                   [raised |-> NoError, returned |-> DEFAULT_OBJ, spawned |-> <<cmd>>]

\* LlvmCompiler.process_stage: the exception raised (NoError when it
\* returns), the path returned, and the commands handed to subprocess.run
process_stage(input_path, input_encoding, output_path, output_encoding, env, tool) ==
    IF output_encoding = TEXTUAL
    THEN [raised |-> UnsupportedEncodingError(LlvmCompiler.OUTPUT_STAGE, output_encoding),
          returned |-> Null, spawned |-> <<>>]
    ELSE LET out == IF output_path = Null THEN DEFAULT_OBJ ELSE output_path
             output_as_text == output_encoding = TEXTUAL
             cmd == <<_get_compiler(env)[1], input_path, "--filetype=obj", "-o", out>>
         IN CASE tool.outcome = "notfound" ->
                   [raised |-> LlcNotFoundError, returned |-> Null, spawned |-> <<cmd>>]
              [] tool.outcome = "oserror" ->
                   [raised |-> OSError, returned |-> Null, spawned |-> <<cmd>>]
              [] tool.outcome = "nonzero" ->
                   [raised |-> LlcError([stderr |-> tool.stderr, text |-> output_as_text]),
                    returned |-> Null, spawned |-> <<cmd>>]
              [] OTHER ->
                   [raised |-> NoError, returned |-> out, spawned |-> <<cmd>>]

----------------------------------------------------------------------------
(* Pipeline driver (guppy_runner.run_guppy_from_stage)                      *)

\* one compiler per adjacent transition; the fifth is LlvmCompiler
stage_compilers ==
    [i \in 1..(Len(Stages) - 1) |->
        IF Stages[i] = LlvmCompiler.INPUT_STAGE
        THEN LlvmCompiler
        ELSE [INPUT_STAGE |-> Stages[i], OUTPUT_STAGE |-> Stages[i + 1]]]

\* the unique compiler whose INPUT_STAGE is the given stage
compiler_for(stage) ==
    CHOOSE c \in {stage_compilers[i] : i \in DOMAIN stage_compilers} : c.INPUT_STAGE = stage

\* the path requested for a stage's artifact (hugr_out, ..., bin_out), or Null
stage_out(kw, stage) ==
    CASE stage = "HUGR" -> kw.hugr_out
      [] stage = "HUGR_MLIR" -> kw.hugr_mlir_out
      [] stage = "LOWERED_MLIR" -> kw.lowered_mlir_out
      [] stage = "LLVM" -> kw.llvm_out
      [] stage = "OBJECT" -> kw.obj_out
      [] stage = "EXECUTABLE" -> kw.bin_out
      [] OTHER -> Null

\* the furthest stage the run has to produce
target_stage(kw, input_stage) ==
    IF ~kw.no_run THEN "EXECUTABLE"
    ELSE LET wanted == {s \in StageSet : stage_out(kw, s) # Null /\ StageLt(input_stage, s)}
         IN IF wanted = {} THEN input_stage
            ELSE CHOOSE s \in wanted : \A t \in wanted : StageGe(s, t)

\* encoding of a stage's artifact: detected from the requested path, else BITCODE
output_encoding_for(out, stage) ==
    IF out # Null /\ from_file(out, stage) # None THEN from_file(out, stage) ELSE BITCODE

\* the contract of process_stage for the compilers other than LlvmCompiler
generic_process_stage(compiler, input_path, output_path, tool) ==
    LET out == IF output_path = Null
               THEN [segments |-> <<"tmp", compiler.OUTPUT_STAGE>>, suffix |-> ""]
               ELSE output_path
        cmd == <<compiler.INPUT_STAGE, input_path, "-o", out>>
        failed(n) == [name |-> n, family |-> "CompilerError", stage |-> None,
                      encoding |-> None, binary |-> <<compiler.INPUT_STAGE>>,
                      err_line |-> IF tool.stderr = <<>> THEN <<"">> ELSE <<Head(tool.stderr)>>]
    IN CASE tool.outcome = "notfound" ->
              [raised |-> failed("ToolNotFoundError"), returned |-> Null, spawned |-> <<cmd>>]
         [] tool.outcome = "oserror" ->
              [raised |-> OSError, returned |-> Null, spawned |-> <<cmd>>]
         [] tool.outcome = "nonzero" ->
              [raised |-> failed("ToolInvocationError"), returned |-> Null, spawned |-> <<cmd>>]
         [] OTHER ->
              [raised |-> NoError, returned |-> out, spawned |-> <<cmd>>]

\* one compiler call of the driver on the current StageData
run_compiler(kw, data, env, tool) ==
    LET c == compiler_for(data.stage)
        out == stage_out(kw, c.OUTPUT_STAGE)
    IN IF c = LlvmCompiler
       THEN process_stage(data.path, data.encoding, out,
                          output_encoding_for(out, c.OUTPUT_STAGE), env, tool)
       ELSE generic_process_stage(c, data.path, out, tool)

main_kwargs_drops_no_run(a) ==
    [hugr_out |-> a.store_hugr,
     hugr_mlir_out |-> a.store_hugr_mlir,
     lowered_mlir_out |-> a.store_llvm_mlir,
     llvm_out |-> a.store_llvm,
     obj_out |-> a.store_obj,
     bin_out |-> a.store_bin,
     no_run |-> FALSE]

\* main: the keyword arguments of the call of run_guppy_from_stage
main_kwargs(a) ==
    [hugr_out |-> a.store_hugr,
     hugr_mlir_out |-> a.store_hugr_mlir,
     lowered_mlir_out |-> a.store_llvm_mlir,
     llvm_out |-> a.store_llvm,
     obj_out |-> a.store_obj,
     bin_out |-> a.store_bin,
     no_run |-> a.no_run]

main_exit_code_always_zero(ok) == 0

\* main: the exit status for the value run_guppy_from_stage returned
main_exit_code(ok) == IF ~ok THEN 1 ELSE 0

\* parse_args and main: the step that follows each step of the script
next_step_reads_before_validating(p) ==
    CASE p = "parse_args" -> "get_input_state"
      [] p = "get_input_state" -> "get_input_encoding"
      [] p = "get_input_encoding" -> "read_input"
      [] p = "read_input" -> "validate_args"
      [] p = "validate_args" -> "pipeline"

next_step(p) ==
    CASE p = "parse_args" -> "get_input_state"
      [] p = "get_input_state" -> "get_input_encoding"
      [] p = "get_input_encoding" -> "validate_args"
      [] p = "validate_args" -> "read_input"
      [] p = "read_input" -> "pipeline"

----------------------------------------------------------------------------
(* The console script, step by step                                         *)

Init ==
    /\ args \in CommandLines
    /\ environ \in Environs
    /\ pc = "parse_args"
    /\ stage_data = Null
    /\ invoked = <<>>
    /\ procs = <<>>
    /\ outcomes = <<>>
    /\ outputs = {}
    /\ executions = 0
    /\ success = <<>>
    /\ error = None
    /\ exit_code = <<>>
    /\ stdin_read = FALSE
    /\ detections = 0
    /\ calls = <<>>

\* parser.parse_args() reads the options in order. -h/--help prints the help
\* and exits with status 0 as soon as it is read; the second option of a
\* mutually exclusive group is a usage error (status 2) as soon as it is read.
ParseArgs ==
    /\ pc = "parse_args"
    /\ IF args.help = "first" \/ (args.help = "last" /\ mutually_exclusive(args))
       THEN /\ pc' = "done"
            /\ exit_code' = <<0>>
            /\ UNCHANGED error
       ELSE IF mutually_exclusive(args)
       THEN /\ pc' = next_step("parse_args")
            /\ UNCHANGED <<error, exit_code>>
       ELSE /\ pc' = "done"
            /\ error' = "usage"
            /\ exit_code' = <<2>>
    /\ UNCHANGED <<args, environ, stage_data, invoked, procs, outcomes, outputs, executions,
                   success, stdin_read, detections, calls>>

GetInputState ==
    /\ pc = "get_input_state"
    /\ args' = [args EXCEPT !.input_stage = get_input_state(args)]
    /\ pc' = next_step("get_input_state")
    /\ UNCHANGED <<environ, stage_data, invoked, procs, outcomes, outputs, executions,
                   success, error, exit_code, stdin_read, detections, calls>>

GetInputEncoding ==
    /\ pc = "get_input_encoding"
    /\ LET r == get_input_encoding(args)
       IN /\ args' = [args EXCEPT !.input_encoding = r.value]
          /\ detections' = detections + r.from_file_calls
    /\ pc' = next_step("get_input_encoding")
    /\ UNCHANGED <<environ, stage_data, invoked, procs, outcomes, outputs, executions,
                   success, error, exit_code, stdin_read, calls>>

\* validate_args: parser.error prints the usage message and exits with status 2
ValidateArgs ==
    /\ pc = "validate_args"
    /\ IF validate_args(args) = None
       THEN /\ pc' = next_step("validate_args")
            /\ UNCHANGED <<error, exit_code>>
       ELSE /\ pc' = "done"
            /\ error' = "usage"
            /\ exit_code' = <<2>>
    /\ UNCHANGED <<args, environ, stage_data, invoked, procs, outcomes, outputs, executions,
                   success, stdin_read, detections, calls>>

\* StageData.from_path / StageData.from_stdin
ReadInput ==
    /\ pc = "read_input"
    /\ IF args.input # Null
       THEN \E exists \in BOOLEAN :
               IF exists
               THEN /\ stage_data' = [stage |-> args.input_stage,
                                      encoding |-> args.input_encoding,
                                      path |-> args.input]
                    /\ pc' = next_step("read_input")
                    /\ UNCHANGED <<error, exit_code, stdin_read>>
               ELSE /\ error' = "NotFoundError"
                    /\ exit_code' = <<1>>
                    /\ pc' = "done"
                    /\ UNCHANGED <<stage_data, stdin_read>>
       ELSE /\ stage_data' = [stage |-> args.input_stage,
                              encoding |-> args.input_encoding,
                              path |-> [segments |-> <<"tmp", "stdin">>, suffix |-> ""]]
            /\ stdin_read' = TRUE
            /\ pc' = next_step("read_input")
            /\ UNCHANGED <<error, exit_code>>
    /\ UNCHANGED <<args, environ, invoked, procs, outcomes, outputs, executions,
                   success, detections, calls>>

\* the driver invokes the compiler of the current stage. A CompilerError
\* is handled by the driver, which stops and reports failure; any other
\* exception is handled neither by the driver nor by main, so it ends the
\* process with a traceback and exit status 1.
CompileStage ==
    /\ pc = "pipeline"
    /\ StageLt(stage_data.stage, target_stage(main_kwargs(args), args.input_stage))
    /\ \E tool \in ToolResponses :
          LET c == compiler_for(stage_data.stage)
              r == run_compiler(main_kwargs(args), stage_data, environ, tool)
          IN /\ invoked' = Append(invoked, c.INPUT_STAGE)
             /\ procs' = procs \o r.spawned
             /\ outcomes' = outcomes \o [i \in DOMAIN r.spawned |-> tool.outcome]
             /\ IF r.raised = NoError
                THEN /\ stage_data' =
                            [stage |-> c.OUTPUT_STAGE,
                             encoding |-> output_encoding_for(
                                 stage_out(main_kwargs(args), c.OUTPUT_STAGE), c.OUTPUT_STAGE),
                             path |-> r.returned]
                     /\ outputs' = outputs \cup {r.returned}
                     /\ UNCHANGED <<pc, success, error, exit_code>>
                ELSE IF is_subclass(r.raised.name, "CompilerError")
                THEN /\ success' = <<FALSE>>
                     /\ error' = r.raised.name
                     /\ pc' = "exit"
                     /\ UNCHANGED <<stage_data, outputs, exit_code>>
                ELSE /\ error' = r.raised.name
                     /\ exit_code' = <<1>>
                     /\ pc' = "done"
                     /\ UNCHANGED <<stage_data, outputs, success>>
    /\ UNCHANGED <<args, environ, executions, stdin_read, detections, calls>>

\* no_run: the driver returns once the furthest requested stage is produced
FinishNoRun ==
    /\ pc = "pipeline"
    /\ main_kwargs(args).no_run
    /\ stage_data.stage = target_stage(main_kwargs(args), args.input_stage)
    /\ success' = <<TRUE>>
    /\ pc' = "exit"
    /\ UNCHANGED <<args, environ, stage_data, invoked, procs, outcomes, outputs, executions,
                   error, exit_code, stdin_read, detections, calls>>

\* the runnable artifact is executed and its result is the driver's result
Execute ==
    /\ pc = "pipeline"
    /\ ~main_kwargs(args).no_run
    /\ stage_data.stage = "EXECUTABLE"
    /\ \E ok \in BOOLEAN :
          /\ success' = <<ok>>
          /\ error' = IF ok THEN None ELSE "ExecutionError"
    /\ executions' = executions + 1
    /\ procs' = Append(procs, <<stage_data.path>>)
    /\ outcomes' = Append(outcomes, IF success'[1] THEN "ok" ELSE "nonzero")
    /\ pc' = "exit"
    /\ UNCHANGED <<args, environ, stage_data, invoked, outputs,
                   exit_code, stdin_read, detections, calls>>

\* main: sys.exit(1) when the driver did not succeed
Exit ==
    /\ pc = "exit"
    /\ exit_code' = <<main_exit_code(success[1])>>
    /\ pc' = "done"
    /\ UNCHANGED <<args, environ, stage_data, invoked, procs, outcomes, outputs, executions,
                   success, error, stdin_read, detections, calls>>

Next ==
    \/ ParseArgs
    \/ GetInputState
    \/ GetInputEncoding
    \/ ValidateArgs
    \/ ReadInput
    \/ CompileStage
    \/ FinishNoRun
    \/ Execute
    \/ Exit

Spec == Init /\ [][Next]_vars

----------------------------------------------------------------------------
(* Direct calls of LlvmCompiler.process_stage                               *)

MaxCalls == 2

CallInputs == {<<File("prog", ".ll"), TEXTUAL>>, <<File("prog", ".bc"), BITCODE>>}
CallOutputPaths == {Null, File("out", ".o")}

InitCompiler ==
    /\ args = Null
    /\ environ \in Environs
    /\ pc = "api"
    /\ stage_data = Null
    /\ invoked = <<>>
    /\ procs = <<>>
    /\ outcomes = <<>>
    /\ outputs = {}
    /\ executions = 0
    /\ success = <<>>
    /\ error = None
    /\ exit_code = <<>>
    /\ stdin_read = FALSE
    /\ detections = 0
    /\ calls = <<>>

\* LlvmCompiler().process_stage(input_path=..., input_encoding=...,
\* output_path=..., output_encoding=...)
Call ==
    /\ pc = "api"
    /\ Len(calls) < MaxCalls
    /\ \E input \in CallInputs,
          output_path \in CallOutputPaths, output_encoding \in EncodingMode,
          tool \in ToolResponses :
          LET input_path == input[1]
              input_encoding == input[2]
              r == process_stage(input_path, input_encoding, output_path,
                                 output_encoding, environ, tool)
          IN /\ calls' = Append(calls,
                    [input_path |-> input_path, input_encoding |-> input_encoding,
                     output_path |-> output_path, output_encoding |-> output_encoding,
                     environ |-> environ, tool |-> tool, result |-> r])
             /\ procs' = procs \o r.spawned
             /\ outcomes' = outcomes \o [i \in DOMAIN r.spawned |-> tool.outcome]
             /\ outputs' = IF r.raised = NoError THEN outputs \cup {r.returned} ELSE outputs
             /\ invoked' = Append(invoked, LlvmCompiler.INPUT_STAGE)
    /\ UNCHANGED <<args, environ, pc, stage_data, executions, success, error,
                   exit_code, stdin_read, detections>>

NextCompiler == Call

CompilerSpec == InitCompiler /\ [][NextCompiler]_vars

----------------------------------------------------------------------------
(* Properties                                                               *)

\* C1 as stated: whenever a requested store's stage is at or before the
\* input stage, the run ends in a usage error with exit status 2 and never
\* gets past argument validation: no input is read, the driver is not called
\* and no external process is spawned.
C1_EarlyStoreIsUsageError ==
    LET early == \E i \in DOMAIN StoreOptions :
                    /\ args[StoreOptions[i]] # Null
                    /\ i + 1 <= StageIndex(get_input_state(args))
    IN early =>
          /\ pc \in {"parse_args", "get_input_state", "get_input_encoding",
                     "validate_args", "done"}
          /\ pc = "done" => (error = "usage" /\ exit_code = <<2>>)
          /\ stage_data = Null /\ ~stdin_read
          /\ procs = <<>> /\ invoked = <<>> /\ executions = 0 /\ success = <<>>

\* C1 amended: whenever a requested store's stage is at or before the input
\* stage, the run never gets past argument validation: no input is read, the
\* driver is not called and no external process is spawned. It ends in a
\* usage error with exit status 2, unless -h/--help was read first, which
\* ends it with the help text and exit status 0 before anything is validated.
C1_EarlyStoreNeverStartsPipeline ==
    LET early == \E i \in DOMAIN StoreOptions :
                    /\ args[StoreOptions[i]] # Null
                    /\ i + 1 <= StageIndex(get_input_state(args))
    IN early =>
          /\ pc \in {"parse_args", "get_input_state", "get_input_encoding",
                     "validate_args", "done"}
          /\ pc = "done" =>
                IF args.help = None \/ args.input_stage # None
                THEN error = "usage" /\ exit_code = <<2>>
                ELSE \/ error = None /\ exit_code = <<0>>
                     \/ error = "usage" /\ exit_code = <<2>> /\ ~mutually_exclusive(args)
          /\ stage_data = Null /\ ~stdin_read
          /\ procs = <<>> /\ invoked = <<>> /\ executions = 0 /\ success = <<>>

C1_Witness ==
    /\ pc = "done"
    /\ mutually_exclusive(args)
    /\ args.help = None
    /\ args.input_stage = "LLVM"
    /\ args.store_hugr # Null
    /\ error = "usage"

\* C2: once the external tool of a compiler has failed (non-zero exit or
\* binary not found), that compiler is the last one invoked, no process is
\* spawned after it, nothing is executed, the driver returns failure with
\* the pipeline still at that compiler's input stage, and every store
\* requested for a stage after the input stage and up to that stage has
\* been written.
C2_FailedCompilerHaltsPipeline ==
    LET failed == {i \in DOMAIN invoked :
                      i <= Len(outcomes) /\ outcomes[i] \in {"nonzero", "notfound"}}
        n == Len(invoked)
    IN failed # {} =>
          /\ failed = {n}
          /\ Len(procs) = n
          /\ executions = 0
          /\ pc \in {"exit", "done"}
          /\ success = <<FALSE>>
          /\ stage_data.stage = invoked[n]
          /\ \A i \in DOMAIN StoreOptions :
                (/\ args[StoreOptions[i]] # Null
                 /\ StageIndex(args.input_stage) < i + 1
                 /\ i + 1 <= StageIndex(invoked[n]))
                => args[StoreOptions[i]] \in outputs

C2_Witness ==
    /\ pc = "done"
    /\ error = "LlcError"
    /\ args.input_stage = "GUPPY"
    /\ args.store_hugr # Null /\ args.store_hugr \in outputs
    /\ args.store_llvm # Null /\ args.store_llvm \in outputs
    /\ args.store_obj # Null /\ args.store_obj \notin outputs
    /\ Len(invoked) = 5

\* C3: the compilers invoked are the stages from the input stage upwards,
\* one after the other without a gap or a repeat, each invoked on the
\* pipeline's current stage, with one external process per compiler and at
\* most one execution; a run from GUPPY with no stores and no_run unset in
\* which every compiler succeeds invokes the six compilers GUPPY..OBJECT in
\* order, then executes exactly once, and returns the execution's result.
C3_CompilersFormAscendingChain ==
    LET n == Len(invoked)
        oks == Cardinality({i \in 1..n : i <= Len(outcomes) /\ outcomes[i] = "ok"})
    IN /\ \A i \in 1..n : StageIndex(invoked[i]) = StageIndex(args.input_stage) + i - 1
       /\ Len(procs) = n + executions
       /\ executions <= 1
       /\ stage_data # Null =>
             StageIndex(stage_data.stage) = StageIndex(args.input_stage) + oks
       /\ (/\ pc = "done" /\ success # <<>>
           /\ args.input_stage = "GUPPY"
           /\ \A i \in DOMAIN StoreOptions : args[StoreOptions[i]] = Null
           /\ ~args.no_run
           /\ oks = n)
          => /\ invoked = <<"GUPPY", "HUGR", "HUGR_MLIR", "LOWERED_MLIR", "LLVM", "OBJECT">>
             /\ executions = 1
             /\ Len(outcomes) = 7
             /\ success[1] = (outcomes[7] = "ok")

C3_Witness ==
    /\ pc = "done"
    /\ args.input_stage = "GUPPY"
    /\ \A i \in DOMAIN StoreOptions : args[StoreOptions[i]] = Null
    /\ ~args.no_run
    /\ Len(invoked) = 6
    /\ executions = 1
    /\ success = <<FALSE>>

\* C4: with no_run set nothing is executed, every compiler invoked has an
\* input stage before the stage of some requested store, and a run in which
\* every tool succeeds returns success with every requested store written.
C4_NoRunStopsAtFurthestStore ==
    args.no_run =>
       /\ executions = 0
       /\ \A i \in DOMAIN invoked :
             \E j \in DOMAIN StoreOptions :
                args[StoreOptions[j]] # Null /\ StageIndex(invoked[i]) < j + 1
       /\ (/\ pc = "done" /\ success # <<>>
           /\ \A i \in DOMAIN outcomes : outcomes[i] = "ok")
          => /\ success = <<TRUE>>
             /\ exit_code = <<0>>
             /\ \A j \in DOMAIN StoreOptions :
                   args[StoreOptions[j]] # Null => args[StoreOptions[j]] \in outputs

C4_Witness ==
    /\ pc = "done"
    /\ args.no_run
    /\ args.input_stage = "LLVM"
    /\ args.input_encoding = TEXTUAL
    /\ args.store_obj # Null /\ args.store_bin = Null
    /\ invoked = <<"LLVM">>
    /\ args.store_obj \in outputs
    /\ success = <<TRUE>>

\* C5: every call of process_stage with output_encoding TEXTUAL raises
\* UnsupportedEncodingError for stage OBJECT and encoding TEXTUAL and spawns
\* no process; the processes spawned are those of the other calls.
C5_TextualObjectIsUnsupported ==
    /\ \A i \in DOMAIN calls :
          calls[i].output_encoding = TEXTUAL =>
             /\ calls[i].result.raised.name = "UnsupportedEncodingError"
             /\ calls[i].result.raised.stage = "OBJECT"
             /\ calls[i].result.raised.encoding = TEXTUAL
             /\ calls[i].result.spawned = <<>>
    /\ Len(procs) = Cardinality({i \in DOMAIN calls : calls[i].output_encoding # TEXTUAL})

C5_Witness ==
    \E i \in DOMAIN calls :
       /\ calls[i].output_encoding = TEXTUAL
       /\ calls[i].output_path # Null
       /\ calls[i].tool.outcome = "ok"
       /\ calls[i].result.raised.name = "UnsupportedEncodingError"
       /\ procs = <<>>

\* C6: a run that reached the driver exits with status 0 exactly when every
\* external process succeeded and the artifact was executed unless no_run
\* is set, and with status 1 otherwise, whether the driver returned failure
\* or an exception of a compiler ended the process; a run that reached the
\* driver reports status 0 only after the driver returned success.
C6_ExitCodeReportsPipelineResult ==
    /\ (pc = "done" /\ stage_data # Null) =>
          LET full == /\ \A i \in DOMAIN outcomes : outcomes[i] = "ok"
                      /\ args.no_run \/ executions = 1
          IN exit_code = IF full THEN <<0>> ELSE <<1>>
    /\ (exit_code = <<0>> /\ stage_data # Null) => success = <<TRUE>>

C6_Witness ==
    /\ pc = "done"
    /\ exit_code = <<1>>
    /\ executions = 1
    /\ ~args.no_run

\* C7: with --textual (--bitcode) the resolved input encoding is TEXTUAL
\* (BITCODE) whatever the input and the input stage, and EncodingMode.from_file
\* is not called.
C7_OverrideTakesPrecedence ==
    (args.input_stage # None /\ pc # "get_input_encoding") =>
       /\ args.textual => (args.input_encoding = TEXTUAL /\ detections = 0)
       /\ args.bitcode => (args.input_encoding = BITCODE /\ detections = 0)

C7_Witness ==
    /\ args.textual
    /\ args.input # Null /\ args.input.suffix = ".bc"
    /\ args.input_stage = "LLVM"
    /\ args.input_encoding = TEXTUAL

\* C8: for an input file without an override the encoding resolved by
\* get_input_encoding is one
\* of TEXTUAL and BITCODE and is determined by the path and the stage: the
\* encoding the suffix table gives, and BITCODE when the table has none.
C8_FileEncodingIsTotal ==
    (/\ args.input_stage # None /\ pc # "get_input_encoding"
     /\ args.input # Null
     /\ ~args.textual /\ ~args.bitcode)
    => /\ args.input_encoding \in {TEXTUAL, BITCODE}
       /\ args.input_encoding =
             IF from_file(args.input, args.input_stage) = None THEN BITCODE
             ELSE from_file(args.input, args.input_stage)

C8_Witness ==
    /\ args.input # Null /\ args.input.suffix = ".txt"
    /\ ~args.textual /\ ~args.bitcode
    /\ args.input_stage = "HUGR_MLIR"
    /\ args.input_encoding = BITCODE

\* C9: without an input file and without an override the resolved encoding
\* is TEXTUAL at every input stage, and the input is read from standard
\* input as a StageData of the input stage with that encoding; standard
\* input is read only when no input file is given.
C9_StdinDefaultsToTextual ==
    /\ (args.input = Null /\ ~args.textual /\ ~args.bitcode) =>
          /\ (args.input_stage # None /\ pc # "get_input_encoding")
                => args.input_encoding = TEXTUAL
          /\ (stage_data # Null /\ invoked = <<>>) =>
                /\ stdin_read
                /\ stage_data.encoding = TEXTUAL
                /\ stage_data.stage = args.input_stage
    /\ stdin_read => args.input = Null

C9_Witness ==
    /\ stdin_read
    /\ ~args.textual /\ ~args.bitcode
    /\ args.input_stage = "LLVM"
    /\ stage_data # Null /\ stage_data.encoding = TEXTUAL
    /\ invoked = <<>>

\* C10: when the binary is not found, the LlcNotFoundError raised names the
\* binary that was resolved and handed to subprocess.run.
C10_NotFoundNamesResolvedBinary ==
    \A i \in DOMAIN calls :
       calls[i].result.raised.name = "LlcNotFoundError" =>
          calls[i].result.raised.binary = PathStr(calls[i].result.spawned[1][1])

\* C11: when the binary exits with a non-zero status, the LlcError raised
\* carries exactly the first line of the captured error stream, or an empty
\* line when the stream is empty, and nothing else.
C11_LlcErrorCarriesFirstStderrLine ==
    \A i \in DOMAIN calls :
       (calls[i].output_encoding # TEXTUAL /\ calls[i].tool.outcome = "nonzero") =>
          /\ calls[i].result.raised.name = "LlcError"
          /\ calls[i].result.raised.err_line =
                IF calls[i].tool.stderr = <<>> THEN <<"">>
                ELSE <<Head(calls[i].tool.stderr)>>

\* C13: the binary of the spawned command is the value of the LLC
\* environment variable when it is set, and the bare name llc when it is not.
C13_SpawnedBinaryIsEnvValueOrLlc ==
    \A i \in DOMAIN calls :
       \A k \in DOMAIN calls[i].result.spawned :
          PathStr(calls[i].result.spawned[k][1]) =
             IF "LLC" \in DOMAIN calls[i].environ
             THEN calls[i].environ["LLC"].segments
             ELSE <<"llc">>

\* C12: every call of process_stage that fails in one of the three ways the
\* contract lists (unsupported output encoding, binary not found, non-zero
\* exit of the binary) raises an exception whose class is a subclass of
\* CompilerError, and a call with a supported encoding whose tool exited
\* with status 0 raises nothing.
C12_FailuresAreCompilerErrors ==
    \A i \in DOMAIN calls :
       LET fails == \/ calls[i].output_encoding = TEXTUAL
                    \/ calls[i].tool.outcome \in {"notfound", "nonzero"}
           succeeds == /\ calls[i].output_encoding # TEXTUAL
                       /\ calls[i].tool.outcome = "ok"
           raised == calls[i].result.raised.name
       IN /\ fails => is_subclass(raised, "CompilerError")
          /\ succeeds => raised = None

C12_Witness ==
    /\ Len(calls) = 2
    /\ calls[1].result.raised.name = "LlcNotFoundError"
    /\ calls[2].result.raised.name = "LlcError"

\* C14: every call of process_stage whose output encoding is supported
\* hands exactly one command to subprocess.run, whether the binary
\* succeeds, exits non-zero or is not found; the processes spawned over all
\* calls are one per such call, each with its one outcome.
C14_OneProcessPerCall ==
    LET supported == {i \in DOMAIN calls : calls[i].output_encoding = BITCODE}
    IN /\ \A i \in supported : Len(calls[i].result.spawned) = 1
       /\ Len(procs) = Cardinality(supported)
       /\ Len(outcomes) = Cardinality(supported)

C14_Witness ==
    /\ Len(calls) = 2
    /\ calls[1].output_encoding = BITCODE /\ calls[1].tool.outcome = "nonzero"
    /\ calls[2].output_encoding = BITCODE /\ calls[2].tool.outcome = "notfound"
    /\ Len(procs) = 2

\* C15: a call of process_stage that succeeds returns output_path when one
\* is given and the path a.o when none is given, and the returned path is
\* the argument of -o in the command handed to subprocess.run.
C15_ReturnsResolvedOutputPath ==
    \A i \in DOMAIN calls :
       calls[i].result.raised.name = None =>
          /\ calls[i].result.returned =
                IF calls[i].output_path = Null
                THEN [segments |-> <<"a.o">>, suffix |-> ".o"]
                ELSE calls[i].output_path
          /\ Len(calls[i].result.spawned) = 1
          /\ calls[i].result.spawned[1][4] = "-o"
          /\ calls[i].result.spawned[1][5] = calls[i].result.returned

C15_Witness ==
    /\ Len(calls) = 2
    /\ calls[1].output_path = Null
    /\ calls[1].result.returned = [segments |-> <<"a.o">>, suffix |-> ".o"]
    /\ calls[2].output_path # Null
    /\ calls[2].result.returned = calls[2].output_path

\* C17: every compiler's OUTPUT_STAGE is the stage right after its
\* INPUT_STAGE, LlvmCompiler goes from LLVM to OBJECT, and no step of a run
\* moves the pipeline's current stage to an earlier stage.
C17_StageChainIsMonotone ==
    [][/\ \A i \in DOMAIN stage_compilers :
             StageIndex(stage_compilers[i].OUTPUT_STAGE)
                = StageIndex(stage_compilers[i].INPUT_STAGE) + 1
       /\ LlvmCompiler.INPUT_STAGE = "LLVM"
       /\ LlvmCompiler.OUTPUT_STAGE = "OBJECT"
       /\ (stage_data # Null /\ stage_data' # Null) =>
             StageIndex(stage_data'.stage) >= StageIndex(stage_data.stage)]_vars

C17_Witness ==
    /\ pc = "pipeline"
    /\ stage_data # Null /\ stage_data.stage = "OBJECT"
    /\ invoked # <<>> /\ invoked[Len(invoked)] = "LLVM"

\* C18 as stated: the resolved input stage is one of GUPPY, HUGR_MLIR,
\* LOWERED_MLIR and LLVM, and GUPPY when no input-stage flag is given.
C18_InputStageIsOneOfFour ==
    args.input_stage # None =>
       /\ args.input_stage \in {"GUPPY", "HUGR_MLIR", "LOWERED_MLIR", "LLVM"}
       /\ (~args.hugr /\ ~args.hugr_mlir /\ ~args.llvm_mlir /\ ~args.llvm)
             => args.input_stage = "GUPPY"

\* C18 amended: an input stage is resolved only when at most one of --hugr,
\* --hugr-mlir, --llvm-mlir, --llvm is given; it is HUGR, HUGR_MLIR,
\* LOWERED_MLIR or LLVM for the flag given and GUPPY when none is given, and
\* two flags of the group end the run before a stage is resolved: in a usage
\* error, or in the help text when -h/--help was read before the second flag.
C18_InputStageFromExclusiveFlags ==
    LET given == {f \in {"hugr", "hugr_mlir", "llvm_mlir", "llvm"} : args[f]}
    IN /\ args.input_stage # None =>
             /\ Cardinality(given) <= 1
             /\ args.input_stage \in {"GUPPY", "HUGR", "HUGR_MLIR", "LOWERED_MLIR", "LLVM"}
             /\ given = {} => args.input_stage = "GUPPY"
             /\ args.hugr => args.input_stage = "HUGR"
             /\ args.hugr_mlir => args.input_stage = "HUGR_MLIR"
             /\ args.llvm_mlir => args.input_stage = "LOWERED_MLIR"
             /\ args.llvm => args.input_stage = "LLVM"
       /\ (Cardinality(given) > 1 /\ pc # "parse_args") =>
             /\ pc = "done"
             /\ IF args.help = "first"
                THEN error = None /\ exit_code = <<0>>
                ELSE error = "usage" /\ exit_code = <<2>>

C18_Witness ==
    /\ pc = "done"
    /\ args.hugr
    /\ args.input_stage = "HUGR"
    /\ exit_code = <<0>>

\* C19: the encoding is resolved after the input stage; the input is read
\* (or found missing) only after stage and encoding are resolved and no
\* requested store lies at or before the input stage; a process is spawned
\* only after the input was read; a run that ends in a usage error has read
\* no input and spawned no process.
C19_UsageErrorPrecedesInputAndProcesses ==
    /\ args.input_encoding # None => args.input_stage # None
    /\ (stage_data # Null \/ stdin_read \/ error = "NotFoundError") =>
          /\ args.input_stage # None
          /\ args.input_encoding # None
          /\ \A i \in DOMAIN StoreOptions :
                args[StoreOptions[i]] # Null => i + 1 > StageIndex(args.input_stage)
    /\ procs # <<>> => stage_data # Null
    /\ error = "usage" => (~stdin_read /\ stage_data = Null /\ procs = <<>>)

C19_Witness ==
    /\ pc = "done"
    /\ error = "usage"
    /\ args.input = Null
    /\ args.input_stage = "HUGR_MLIR"
    /\ args.input_encoding = TEXTUAL
    /\ args.store_hugr_mlir # Null
    /\ ~stdin_read

====
